---- MODULE Spec2Model ----
(***************************************************************************)
(* Model of fsipy/automatedPreprocessing/automated_preprocessing.py and of *)
(* the simulation and post-processing programs that go with it.            *)
(*                                                                         *)
(* run_pre_processing is a straight-line pipeline; it is cut into one      *)
(* action per stage (and one per loop iteration).  The case directory      *)
(* (files) and the parameter file (info) survive from one run to the next; *)
(* everything else is local to a run and reset by StartRun.                *)
(*                                                                         *)
(* Arguments: remove_all and scale_factor are fixed by StartRun.  An       *)
(* argument that the code reads later is drawn by the action of the stage  *)
(* that reads it first.  The arguments that describe the case (the         *)
(* smoothing and meshing methods, refine_region, add_flow_extensions,      *)
(* solid_thickness, mesh_format, compress_mesh, and is_capped, a property  *)
(* of the input surface) are kept in config and are the same on every run  *)
(* of a behaviour; the parameter lists, mesh_generation_retries and        *)
(* config_path are drawn anew on every run.                                *)
(*                                                                         *)
(* Results of the VMTK/morphman geometry kernels are nondeterministic      *)
(* choices (foundNaN, outlet count, whether generate_mesh raises           *)
(* RuntimeError, whether the mesh has points).  A kernel that is handed a  *)
(* file name leaves that file behind.                                      *)
(*                                                                         *)
(* Numbers: lengths are integers in an arbitrary unit, so that the scaling *)
(* by scale_factor is an integer multiplication.                           *)
(*                                                                         *)
(* read_command_line is a function of the parsed arguments; it has its own *)
(* specification SpecCL.                                                   *)
(*                                                                         *)
(* previous records, when a run starts, how the run before it ended and    *)
(* the files it left.                                                      *)
(*                                                                         *)
(* The other programs of the repository have a specification each, over    *)
(* variables of their own that the pre-processing leaves untouched:        *)
(*   SpecBC           simulations/avf.py: the boundary-condition           *)
(*                    expressions InnerP and VelIn1Para under pre_solve;   *)
(*   SpecSpectrogram  create_spectrogram_from_components.py: the average   *)
(*                    of the component spectrograms, in rounded arithmetic;*)
(*   SpecDomain       separate_domain.py: extraction and renumbering of    *)
(*                    the topology of the fluid and the solid domain.      *)
(***************************************************************************)
EXTENDS Integers, Sequences, FiniteSets, TLC

\* ---------------------------------------------------------------- bounds
MaxRuns == 2            \* runs of run_pre_processing on the same case
MaxRetries == 1         \* largest mesh_generation_retries drawn
NumRegions == 1         \* largest info["number_of_regions"] drawn
MaxRegionCoords == 4    \* longest --region-points list drawn
NumSamples == 3         \* avf.py: len(interp_P) = int(T / dt)
MaxRamp == 4            \* avf.py: largest ramp time drawn
NumRows == 1            \* spectrogram: rows (frequencies) of a csv file
NumBins == 1            \* spectrogram: value columns (time bins) of a csv file
NumCells == 2           \* separate_domain: cells of the mesh
NodesPerCell == 2       \* separate_domain: nodes of a cell
NumNodes == 4           \* separate_domain: nodes of the mesh

\* ---------------------------------------------------------------- values
None == [some |-> FALSE]
Some(v) == [some |-> TRUE, val |-> v]

\* ------------------------------------------------------------ file names
file_name_centerlines == "_centerlines.vtp"
file_name_refine_region_centerlines == "_refine_region_centerline.vtp"
file_name_region_centerlines == "_sac_centerline_{}.vtp"
file_name_distance_to_sphere_diam == "_distance_to_sphere_diam.vtp"
file_name_distance_to_sphere_const == "_distance_to_sphere_const.vtp"
file_name_distance_to_sphere_curv == "_distance_to_sphere_curv.vtp"
file_name_distance_to_sphere_spheres == "_distance_to_sphere_spheres.vtp"
file_name_distance_to_sphere_solid_thickness == "_distance_to_sphere_solid_thickness.vtp"
file_name_parameters == "_info.json"
file_name_probe_points == "_probe_point.json"
file_name_voronoi == "_voronoi.vtp"
file_name_voronoi_smooth == "_voronoi_smooth.vtp"
file_name_voronoi_surface == "_voronoi_surface.vtp"
file_name_surface_smooth == "_smooth.vtp"
file_name_model_flow_ext == "_flowext.vtp"
file_name_clipped_model == "_clippedmodel.vtp"
file_name_flow_centerlines == "_flow_cl.vtp"
file_name_surface_name == "_remeshed_surface.vtp"
file_name_xml_mesh == ".xml"
file_name_xml_mesh_gz == ".xml.gz"
file_name_vtu_mesh == ".vtu"
file_name_hdf5_mesh == ".h5"
file_name_xdmf_mesh == ".xdmf"
file_name_edge_length_xdmf == "_edge_length.xdmf"

\* str.format: file_name_region_centerlines.format(i)
format(i) == "_sac_centerline_" \o ToString(i) \o ".vtp"

\* the list removed when remove_all is set
files_to_remove_all ==
    { file_name_centerlines, file_name_refine_region_centerlines, file_name_region_centerlines,
      file_name_distance_to_sphere_diam, file_name_distance_to_sphere_const,
      file_name_distance_to_sphere_curv, file_name_distance_to_sphere_spheres,
      file_name_distance_to_sphere_solid_thickness, file_name_parameters, file_name_probe_points,
      file_name_voronoi, file_name_voronoi_smooth, file_name_voronoi_surface,
      file_name_surface_smooth, file_name_model_flow_ext, file_name_clipped_model,
      file_name_flow_centerlines, file_name_surface_name, file_name_xml_mesh,
      file_name_vtu_mesh, file_name_hdf5_mesh, file_name_xdmf_mesh }

\* the list removed at the end of a run
files_to_remove ==
    { file_name_centerlines, file_name_refine_region_centerlines, file_name_region_centerlines,
      file_name_distance_to_sphere_diam, file_name_distance_to_sphere_const,
      file_name_distance_to_sphere_curv, file_name_voronoi, file_name_voronoi_smooth,
      file_name_voronoi_surface, file_name_surface_smooth, file_name_model_flow_ext,
      file_name_clipped_model, file_name_flow_centerlines, file_name_surface_name }

\* ----------------------------------------------------------------- state
VARIABLES
    pc,                          \* position of the run in run_pre_processing
    runs,                        \* number of runs started
    files,                       \* files that exist in the case directory
    info,                        \* keys stored in the parameter file _info.json
    exit_status,                 \* "none", "-1" (sys.exit), "RuntimeError", "AssertionError"
    remove_all, scale_factor,    \* arguments fixed at the call
    previous,                    \* how the run before this one ended, and the files it left
    in_meshing_parameters, in_solid_thickness_parameters,  \* the lists as passed
    resampling_step, meshing_parameters, solid_thickness_parameters,  \* mutated locals
    parameters,                  \* keys of the local dict parameters
    config,                      \* arguments that describe the case, as first drawn
    opts,                        \* per-run arguments drawn by the stage that reads them
    log,                         \* stages reached in this run, in order
    last,                        \* what the latest checkpointed step did
    loop_i,                      \* loop variable of the for loops
    n_generate, n_raised,        \* generate_mesh calls on the original field / that raised
    n_alternative, n_generate_alt,   \* mesh_alternative calls / generate_mesh calls on its output
    mesh,                        \* where the local mesh comes from
    n_simulation,                \* run_simulation calls of this run
    cl_args, cl_result,          \* read_command_line: parsed args and outcome
    default_variables,           \* avf.py: dt, vel_t_ramp, p_t_ramp_start, p_t_ramp_end
    interp_P, interp_PA,         \* avf.py: the interpolated pressure and velocity waveforms
    p_out_bc_val,                \* avf.py: the InnerP object and its latest evaluation
    u_inflow_exp1,               \* avf.py: the VelIn1Para object and its latest evaluation
    csv_x_data, csv_y_data, csv_z_data,  \* spectrogram: the arrays read from the csv files
    freqs, Pxx,                  \* spectrogram: frequency axis and combined spectrogram
    vectorData,                  \* separate_domain: the arrays read from the mesh file
    sd_pc, domain_name,          \* separate_domain: position, and domain of the second loop
    domain_of_interest_topology, domain_of_interest_ids, domain_of_interest_coordinates,
    node_id,                     \* separate_domain: loop variable of the renumbering loop
    hits,                        \* separate_domain: times each topology entry was replaced
    fixed_files                  \* separate_domain: arrays written to the fixed mesh files

vars == << pc, runs, files, info, exit_status, remove_all, scale_factor, previous,
           in_meshing_parameters, in_solid_thickness_parameters,
           resampling_step, meshing_parameters, solid_thickness_parameters,
           parameters, config, opts, log, last, loop_i, n_generate, n_raised,
           n_alternative, n_generate_alt, mesh, n_simulation, cl_args, cl_result,
           default_variables, interp_P, interp_PA, p_out_bc_val, u_inflow_exp1,
           csv_x_data, csv_y_data, csv_z_data, freqs, Pxx,
           vectorData, sd_pc, domain_name, domain_of_interest_topology,
           domain_of_interest_ids, domain_of_interest_coordinates, node_id, hits,
           fixed_files >>

cl_vars == << cl_args, cl_result >>
bc_vars == << default_variables, interp_P, interp_PA, p_out_bc_val, u_inflow_exp1 >>
csv_vars == << csv_x_data, csv_y_data, csv_z_data >>
spectrogram_vars == << csv_vars, freqs, Pxx >>
domain_of_interest_vars == << domain_of_interest_topology, domain_of_interest_ids,
                             domain_of_interest_coordinates >>
domain_vars == << vectorData, sd_pc, domain_name, domain_of_interest_vars, node_id, hits,
                  fixed_files >>
other_vars == << bc_vars, spectrogram_vars, domain_vars >>
arg_vars == << remove_all, scale_factor >>
start_vars == << arg_vars, previous >>
mp_vars == << in_meshing_parameters, meshing_parameters >>
stp_vars == << in_solid_thickness_parameters, solid_thickness_parameters >>
mesh_vars == << n_generate, n_raised, n_alternative, n_generate_alt, mesh >>

\* ------------------------------------------------------- argument domains
ScaleFactors == { None, Some(2) }
ResamplingStep == 1
MeshingParameterLists == { <<1, 2, 3, 4>>, <<1, 2, 3>> }
SolidThicknessParameterLists == { <<>>, <<0>>, <<3>>, <<1, 2, 3, 4>> }
SmoothingMethods == { "voronoi", "no_smooth", "laplace", "taubin" }
MeshingMethods == { "diameter", "curvature", "constant", "distancetospheres" }
SolidThicknesses == { "constant", "variable" }
MeshFormats == { "xml", "hdf5", "xdmf" }
Retries == -1 .. MaxRetries

\* ---------------------------------------------------------------- helpers
\* path.isfile with the test inverted
isfile_inverted(f) == f \notin files

isfile(f) == f \in files

\* the values an argument of the case can take: as on the earlier runs, once drawn
Choices(key, domain) == IF key \in DOMAIN config THEN {config[key]} ELSE domain

\* record of a step: the stage, what it did, whether the stage's file existed when the
\* stage was reached, and the parameter list it handed on
NoFile == ""
NoOp == [stage |-> "none", mode |-> "none", existed |-> FALSE, params |-> <<>>]
Op(stage, mode, f, params) ==
    [stage |-> stage, mode |-> mode, existed |-> f \in files, params |-> params]

\* scaling that does not spare the 'scale' entry
ScaleEntries_all(list, idx, factor) ==
    [k \in DOMAIN list |-> list[k] * factor]

\* x *= scale_factor on the entries idx of a list
ScaleEntries(list, idx, factor) ==
    [k \in DOMAIN list |-> IF k \in idx THEN list[k] * factor ELSE list[k]]

NoMesh == [src |-> "none", call |-> 0]

NoRun == [exit_status |-> "no run", files |-> {}]

Exit(status) ==
    /\ pc' = "exit"
    /\ exit_status' = status

\* ------------------------------------------------------------------ Init
InitRun ==
    /\ pc = "idle"
    /\ runs = 0
    /\ files = {}
    /\ info = {}
    /\ exit_status = "none"
    /\ remove_all = FALSE
    /\ scale_factor = None
    /\ previous = NoRun
    /\ in_meshing_parameters = <<>>
    /\ in_solid_thickness_parameters = <<>>
    /\ resampling_step = ResamplingStep
    /\ meshing_parameters = <<>>
    /\ solid_thickness_parameters = <<>>
    /\ parameters = {}
    /\ config = <<>>
    /\ opts = <<>>
    /\ log = <<>>
    /\ last = NoOp
    /\ loop_i = 0
    /\ n_generate = 0
    /\ n_raised = 0
    /\ n_alternative = 0
    /\ n_generate_alt = 0
    /\ mesh = NoMesh
    /\ n_simulation = 0

\* read_command_line is not running
NoCommandLine ==
    /\ cl_args = <<>>
    /\ cl_result = "none"

\* no boundary-condition expression of avf.py has been created
NoExpression == [created |-> FALSE]

NoBoundaryConditions ==
    /\ default_variables = <<>>
    /\ interp_P = <<>>
    /\ interp_PA = <<>>
    /\ p_out_bc_val = NoExpression
    /\ u_inflow_exp1 = NoExpression

\* create_spectrogram_composite has read nothing
NoSpectrogram ==
    /\ csv_x_data = <<>>
    /\ csv_y_data = <<>>
    /\ csv_z_data = <<>>
    /\ freqs = <<>>
    /\ Pxx = <<>>

\* separate_domain has not been called
NoSeparation ==
    /\ vectorData = <<>>
    /\ sd_pc = "idle"
    /\ domain_name = "none"
    /\ domain_of_interest_topology = <<>>
    /\ domain_of_interest_ids = <<>>
    /\ domain_of_interest_coordinates = <<>>
    /\ node_id = 0
    /\ hits = <<>>
    /\ fixed_files = <<>>

Init ==
    /\ InitRun
    /\ NoCommandLine
    /\ NoBoundaryConditions
    /\ NoSpectrogram
    /\ NoSeparation

\* --------------------------------------------------- run_pre_processing
\* a start that removes the files whatever remove_all says
removed_at_start_always(ra) == files_to_remove_all

\* lines 109-122: the files removed when the run starts
removed_at_start(ra) == IF ra THEN files_to_remove_all ELSE {}

\* lines 77-132: a new process calls run_pre_processing; remove_all, load, scale
StartRun ==
    /\ pc \in {"idle", "done", "exit"}
    /\ runs < MaxRuns
    /\ runs' = runs + 1
    /\ previous' = IF pc = "idle" THEN NoRun
                   ELSE [exit_status |-> exit_status, files |-> files]
    /\ \E ra \in BOOLEAN, sf \in ScaleFactors :
          /\ remove_all' = ra
          /\ scale_factor' = sf
          /\ files' = files \ removed_at_start(ra)
          /\ info' = IF ra THEN {} ELSE info
          /\ resampling_step' = IF sf # None THEN ResamplingStep * sf.val ELSE ResamplingStep
    /\ in_meshing_parameters' = <<>>
    /\ meshing_parameters' = <<>>
    /\ in_solid_thickness_parameters' = <<>>
    /\ solid_thickness_parameters' = <<>>
    /\ pc' = "uncap"
    /\ exit_status' = "none"
    /\ parameters' = {}
    /\ opts' = <<>>
    /\ log' = <<>>
    /\ last' = NoOp
    /\ loop_i' = 0
    /\ n_generate' = 0
    /\ n_raised' = 0
    /\ n_alternative' = 0
    /\ n_generate_alt' = 0
    /\ mesh' = NoMesh
    /\ n_simulation' = 0
    /\ UNCHANGED << config, cl_vars, other_vars >>

\* lines 134-146: uncap a closed surface, or read the clipped model
Uncap ==
    /\ pc = "uncap"
    /\ \E is_capped \in Choices("is_capped", BOOLEAN) :
          /\ config' = ("is_capped" :> is_capped) @@ config
          /\ IF is_capped
             THEN IF ~isfile(file_name_clipped_model)
                  THEN /\ files' = files \cup {file_name_clipped_model}
                       /\ last' = Op("clipped_model", "computed", file_name_clipped_model, <<>>)
                  ELSE /\ files' = files
                       /\ last' = Op("clipped_model", "read", file_name_clipped_model, <<>>)
             ELSE /\ files' = files
                  /\ last' = NoOp
    /\ pc' = "check_surface"
    /\ UNCHANGED << runs, info, exit_status, start_vars, resampling_step, mp_vars, stp_vars,
                    parameters, opts, log, loop_i, mesh_vars, n_simulation, cl_vars, other_vars >>

\* lines 148-165: get_parameters; clean and check the surface once per case
CheckSurface ==
    /\ pc = "check_surface"
    /\ log' = Append(log, "surface_cleaning")
    /\ IF "check_surface" \notin info
       THEN \E foundNaN \in BOOLEAN :
               IF foundNaN
               THEN /\ Exit("RuntimeError")
                    /\ parameters' = info
                    /\ last' = Op("check_surface", "raised", file_name_parameters, <<>>)
                    /\ UNCHANGED << files, info >>
               ELSE /\ parameters' = info \cup {"check_surface"}
                    /\ info' = info \cup {"check_surface"}
                    /\ files' = files \cup {file_name_parameters}
                    /\ last' = Op("check_surface", "computed", file_name_parameters, <<>>)
                    /\ pc' = "capping"
                    /\ UNCHANGED exit_status
       ELSE /\ parameters' = info
            /\ last' = Op("check_surface", "read", file_name_parameters, <<>>)
            /\ pc' = "capping"
            /\ UNCHANGED << files, info, exit_status >>
    /\ UNCHANGED << runs, start_vars, resampling_step, mp_vars, stp_vars, opts, loop_i,
                    mesh_vars, n_simulation, config, cl_vars, other_vars >>

\* capping that goes on to the smoothing without the centerlines
Capping_skip ==
    /\ pc = "capping"
    /\ log' = Append(log, "capping")
    /\ last' = NoOp
    /\ pc' = "smooth"
    /\ UNCHANGED << runs, files, info, exit_status, start_vars, resampling_step, mp_vars,
                    stp_vars, parameters, opts, loop_i, mesh_vars, n_simulation, config,
                    cl_vars, other_vars >>

\* line 168: vmtk_cap_polydata
Capping ==
    /\ pc = "capping"
    /\ log' = Append(log, "capping")
    /\ last' = NoOp
    /\ pc' = "centerlines"
    /\ UNCHANGED << runs, files, info, exit_status, start_vars, resampling_step, mp_vars,
                    stp_vars, parameters, opts, loop_i, mesh_vars, n_simulation, config,
                    cl_vars, other_vars >>

\* lines 170-203: centerlines of the model and, with refine_region, of the regions
Centerlines ==
    /\ pc = "centerlines"
    /\ log' = Append(log, "centerlines")
    /\ last' = NoOp
    /\ \E refine_region \in Choices("refine_region", BOOLEAN) :
          IF refine_region
          THEN \E num_anu \in Choices("num_anu", 1 .. NumRegions) :
                  /\ files' = files \cup { file_name_centerlines,
                                           file_name_refine_region_centerlines }
                  /\ info' = info \cup {"number_of_regions"}
                  /\ config' = ("refine_region" :> TRUE) @@ ("num_anu" :> num_anu) @@ config
                  /\ pc' = "region_loop"
          ELSE /\ files' = files \cup {file_name_centerlines}
               /\ pc' = "smooth"
               /\ config' = ("refine_region" :> FALSE) @@ config
               /\ UNCHANGED info
    /\ loop_i' = 0
    /\ UNCHANGED << runs, exit_status, start_vars, resampling_step, mp_vars, stp_vars,
                    parameters, opts, mesh_vars, n_simulation, cl_vars, other_vars >>

\* lines 206-225: one iteration of "for i in range(num_anu)"
RegionCenterline ==
    /\ pc = "region_loop"
    /\ IF ~isfile(format(loop_i))
       THEN /\ files' = files \cup {format(loop_i)}
            /\ last' = Op("region_centerline", "computed", format(loop_i), <<>>)
       ELSE /\ files' = files
            /\ last' = Op("region_centerline", "read", format(loop_i), <<>>)
    /\ loop_i' = loop_i + 1
    /\ pc' = IF loop_i + 1 < config["num_anu"] THEN "region_loop" ELSE "smooth"
    /\ UNCHANGED << runs, info, exit_status, start_vars, resampling_step, mp_vars, stp_vars,
                    parameters, opts, log, mesh_vars, n_simulation, config, cl_vars, other_vars >>

\* lines 236-239, 283-298: choose the smoothing; Laplace/Taubin smoothing
Smooth ==
    /\ pc = "smooth"
    /\ log' = Append(log, "smoothing")
    /\ \E smoothing_method \in Choices("smoothing_method", SmoothingMethods) :
          /\ config' = ("smoothing_method" :> smoothing_method) @@ config
          /\ IF smoothing_method = "voronoi"
             THEN IF ~isfile(file_name_surface_smooth)
                  THEN /\ pc' = "voronoi"
                       /\ last' = NoOp
                       /\ files' = files
                  ELSE /\ pc' = "flow_extension"
                       /\ last' = Op("surface_smooth", "read", file_name_surface_smooth, <<>>)
                       /\ files' = files
             ELSE IF smoothing_method \in {"laplace", "taubin"}
                  THEN /\ pc' = "flow_extension"
                       /\ IF ~isfile(file_name_surface_smooth)
                          THEN /\ files' = files \cup {file_name_surface_smooth}
                               /\ last' = Op("surface_smooth", "computed",
                                             file_name_surface_smooth, <<>>)
                          ELSE /\ files' = files
                               /\ last' = Op("surface_smooth", "read",
                                             file_name_surface_smooth, <<>>)
                  ELSE /\ pc' = "flow_extension"
                       /\ last' = NoOp
                       /\ files' = files
    /\ UNCHANGED << runs, info, exit_status, start_vars, resampling_step, mp_vars, stp_vars,
                    parameters, opts, loop_i, mesh_vars, n_simulation, cl_vars, other_vars >>

\* lines 241-245: Voronoi diagram
VoronoiDiagram ==
    /\ pc = "voronoi"
    /\ IF ~isfile(file_name_voronoi)
       THEN /\ files' = files \cup {file_name_voronoi}
            /\ last' = Op("voronoi", "computed", file_name_voronoi, <<>>)
       ELSE /\ files' = files
            /\ last' = Op("voronoi", "read", file_name_voronoi, <<>>)
    /\ pc' = "voronoi_smooth"
    /\ UNCHANGED << runs, info, exit_status, start_vars, resampling_step, mp_vars, stp_vars,
                    parameters, opts, log, loop_i, mesh_vars, n_simulation, config,
                    cl_vars, other_vars >>

\* lines 248-253: smoothed Voronoi diagram
VoronoiSmooth ==
    /\ pc = "voronoi_smooth"
    /\ IF ~isfile(file_name_voronoi_smooth)
       THEN /\ files' = files \cup {file_name_voronoi_smooth}
            /\ last' = Op("voronoi_smooth", "computed", file_name_voronoi_smooth, <<>>)
       ELSE /\ files' = files
            /\ last' = Op("voronoi_smooth", "read", file_name_voronoi_smooth, <<>>)
    /\ pc' = "new_surface"
    /\ UNCHANGED << runs, info, exit_status, start_vars, resampling_step, mp_vars, stp_vars,
                    parameters, opts, log, loop_i, mesh_vars, n_simulation, config,
                    cl_vars, other_vars >>

\* lines 256-281: surface from the smoothed Voronoi diagram, outlet check
NewSurface ==
    /\ pc = "new_surface"
    /\ files' = files \cup {file_name_voronoi_surface, file_name_surface_smooth}
    /\ last' = Op("surface_smooth", "computed", file_name_surface_smooth, <<>>)
    /\ \E num_outlets_equal \in BOOLEAN :
          IF num_outlets_equal
          THEN pc' = "flow_extension" /\ UNCHANGED exit_status
          ELSE Exit("-1")
    /\ UNCHANGED << runs, info, start_vars, resampling_step, mp_vars, stp_vars, parameters, opts,
                    log, loop_i, mesh_vars, n_simulation, config, cl_vars, other_vars >>

\* lines 300-326: flow extensions
FlowExtension ==
    /\ pc = "flow_extension"
    /\ log' = Append(log, "flow_extension")
    /\ \E add_flow_extensions \in Choices("add_flow_extensions", BOOLEAN) :
          /\ config' = ("add_flow_extensions" :> add_flow_extensions) @@ config
          /\ IF add_flow_extensions
             THEN IF ~isfile(file_name_model_flow_ext)
                  THEN /\ files' = files \cup {file_name_model_flow_ext}
                       /\ last' = Op("model_flow_ext", "computed", file_name_model_flow_ext, <<>>)
                  ELSE /\ files' = files
                       /\ last' = Op("model_flow_ext", "read", file_name_model_flow_ext, <<>>)
             ELSE /\ files' = files
                  /\ last' = NoOp
    /\ pc' = "flow_centerlines"
    /\ UNCHANGED << runs, info, exit_status, start_vars, resampling_step, mp_vars, stp_vars,
                    parameters, opts, loop_i, mesh_vars, n_simulation, cl_vars, other_vars >>

\* lines 328-360: cap the extended surface, centerlines with flow extensions
FlowCenterlines ==
    /\ pc = "flow_centerlines"
    /\ IF config["add_flow_extensions"]
       THEN IF ~isfile(file_name_flow_centerlines)
            THEN /\ files' = files \cup {file_name_flow_centerlines}
                 /\ last' = Op("flow_centerlines", "computed", file_name_flow_centerlines, <<>>)
                 /\ log' = log \o <<"capping", "centerlines">>
            ELSE /\ files' = files
                 /\ last' = Op("flow_centerlines", "read", file_name_flow_centerlines, <<>>)
                 /\ log' = Append(log, "capping")
       ELSE /\ files' = files
            /\ last' = NoOp
            /\ log' = Append(log, "capping")
    /\ pc' = "distance_to_sphere"
    /\ UNCHANGED << runs, info, exit_status, start_vars, resampling_step, mp_vars, stp_vars,
                    parameters, opts, loop_i, mesh_vars, n_simulation, config,
                    cl_vars, other_vars >>

\* a length test that lets a three-entry list through
ValidMeshingParameters_atleast3(mp) == Len(mp) >= 3

\* line 385: len(meshing_parameters) == 4
ValidMeshingParameters(mp) == Len(mp) = 4

\* the test without the sign check
InvalidConstantThickness_nosign(stp) == Len(stp) # 1

\* line 421: len(solid_thickness_parameters) != 1 or solid_thickness_parameters[0] <= 0
InvalidConstantThickness(stp) == Len(stp) # 1 \/ stp[1] <= 0

\* files written by dist_sphere_constant / dist_sphere_curvature / dist_sphere_diam
file_name_distance_to_sphere(meshing_method) ==
    CASE meshing_method = "constant" -> file_name_distance_to_sphere_const
      [] meshing_method = "curvature" -> file_name_distance_to_sphere_curv
      [] meshing_method = "diameter" -> file_name_distance_to_sphere_diam
      [] OTHER -> file_name_distance_to_sphere_spheres

\* lines 362-397: distance-to-sphere field of the chosen meshing method
DistanceToSphere ==
    /\ pc = "distance_to_sphere"
    /\ log' = Append(log, "distance_field")
    /\ \E meshing_method \in Choices("meshing_method", MeshingMethods) :
          LET f == file_name_distance_to_sphere(meshing_method)
              stage == "distance_to_sphere_" \o meshing_method
          IN  /\ config' = ("meshing_method" :> meshing_method) @@ config
              /\ IF meshing_method # "distancetospheres"
                 THEN /\ IF ~isfile(f)
                         THEN /\ files' = files \cup {f}
                              /\ last' = Op(stage, "computed", f, <<>>)
                         ELSE /\ files' = files
                              /\ last' = Op(stage, "read", f, <<>>)
                      /\ pc' = "solid_thickness"
                      /\ UNCHANGED << mp_vars, exit_status >>
                 ELSE \E mp \in MeshingParameterLists :
                         /\ in_meshing_parameters' = mp
                         /\ IF ~isfile(f)
                            THEN IF ValidMeshingParameters(mp)
                                 THEN /\ meshing_parameters' =
                                            IF scale_factor # None
                                            THEN ScaleEntries(mp, {1, 3, 4}, scale_factor.val)
                                            ELSE mp
                                      /\ files' = files \cup {f}
                                      /\ last' = Op(stage, "computed", f, meshing_parameters')
                                      /\ pc' = "solid_thickness"
                                      /\ UNCHANGED exit_status
                                 ELSE /\ Exit("-1")
                                      /\ meshing_parameters' = mp
                                      /\ last' = Op(stage, "exit", f, <<>>)
                                      /\ UNCHANGED files
                            ELSE /\ last' = Op(stage, "read", f, <<>>)
                                 /\ meshing_parameters' = mp
                                 /\ pc' = "solid_thickness"
                                 /\ UNCHANGED << files, exit_status >>
    /\ UNCHANGED << runs, info, start_vars, resampling_step, stp_vars, parameters, opts, loop_i,
                    mesh_vars, n_simulation, cl_vars, other_vars >>

\* lines 399-428: solid thickness, variable (a distance field) or constant
SolidThickness ==
    /\ pc = "solid_thickness"
    /\ \E solid_thickness \in Choices("solid_thickness", SolidThicknesses),
          stp \in SolidThicknessParameterLists :
          LET f == file_name_distance_to_sphere_solid_thickness
          IN  /\ config' = ("solid_thickness" :> solid_thickness) @@ config
              /\ in_solid_thickness_parameters' = stp
              /\ IF solid_thickness = "variable"
                 THEN IF ~isfile(f)
                      THEN IF Len(stp) = 4
                           THEN /\ solid_thickness_parameters' =
                                      IF scale_factor # None
                                      THEN ScaleEntries(stp, {1, 3, 4}, scale_factor.val)
                                      ELSE stp
                                /\ files' = files \cup {f}
                                /\ last' = Op("solid_thickness_variable", "computed", f,
                                              solid_thickness_parameters')
                                /\ pc' = "mesh"
                                /\ UNCHANGED exit_status
                           ELSE IF Len(stp) = 0
                                THEN /\ files' = files \cup {f}
                                     /\ last' = Op("solid_thickness_variable", "computed", f, <<>>)
                                     /\ pc' = "mesh"
                                     /\ solid_thickness_parameters' = stp
                                     /\ UNCHANGED exit_status
                                ELSE /\ Exit("-1")
                                     /\ last' = Op("solid_thickness_variable", "exit", f, <<>>)
                                     /\ solid_thickness_parameters' = stp
                                     /\ UNCHANGED files
                      ELSE /\ last' = Op("solid_thickness_variable", "read", f, <<>>)
                           /\ pc' = "mesh"
                           /\ solid_thickness_parameters' = stp
                           /\ UNCHANGED << files, exit_status >>
                 ELSE IF InvalidConstantThickness(stp)
                      THEN /\ Exit("-1")
                           /\ last' = Op("solid_thickness_constant", "exit", NoFile, <<>>)
                           /\ solid_thickness_parameters' = stp
                           /\ UNCHANGED files
                      ELSE /\ solid_thickness_parameters' =
                                 IF scale_factor # None
                                 THEN ScaleEntries(stp, {1}, scale_factor.val)
                                 ELSE stp
                           /\ last' = Op("solid_thickness_constant", "validated", NoFile,
                                         solid_thickness_parameters')
                           /\ pc' = "mesh"
                           /\ UNCHANGED << files, exit_status >>
    /\ UNCHANGED << runs, info, start_vars, resampling_step, mp_vars, parameters, opts, log,
                    loop_i, mesh_vars, n_simulation, cl_vars, other_vars >>

\* a loop that runs one iteration too many
AfterAttempt_offbyone(i, mesh_generation_retries) ==
    IF i <= mesh_generation_retries + 1 THEN "try_generate" ELSE "alternative"

\* position after "for i in range(mesh_generation_retries + 1)" has run i iterations
AfterAttempt(i, mesh_generation_retries) ==
    IF i < mesh_generation_retries + 1 THEN "try_generate" ELSE "alternative"

\* a loop that goes on to its next iteration after a success
AfterSuccess_nobreak(i, mesh_generation_retries) ==
    IF i < mesh_generation_retries + 1 THEN "try_generate" ELSE "write_mesh"

\* lines 449-452: position after iteration i - 1 of the loop got a mesh: break
AfterSuccess(i, mesh_generation_retries) == "write_mesh"

\* lines 430-444, 488-489: generate the mesh unless the .vtu mesh exists
Mesh ==
    /\ pc = "mesh"
    /\ log' = Append(log, "mesh_generation")
    /\ IF ~isfile(file_name_vtu_mesh)
       THEN \E mesh_generation_retries \in Retries :
               /\ opts' = ("mesh_generation_retries" :> mesh_generation_retries) @@ opts
               /\ last' = Op("vtu_mesh", "computed", file_name_vtu_mesh, <<>>)
               /\ pc' = AfterAttempt(0, mesh_generation_retries)
               /\ mesh' = mesh
               /\ config' = config
       ELSE \E mesh_format \in Choices("mesh_format", MeshFormats),
               compress_mesh \in Choices("compress_mesh", BOOLEAN) :
               /\ config' = ("mesh_format" :> mesh_format) @@
                            ("compress_mesh" :> compress_mesh) @@ config
               /\ opts' = ("file_name_xml_mesh" :> file_name_xml_mesh) @@ opts
               /\ last' = Op("vtu_mesh", "read", file_name_vtu_mesh, <<>>)
               /\ mesh' = [src |-> "read_polydata", call |-> 0]
               /\ pc' = "convert"
    /\ loop_i' = 0
    /\ UNCHANGED << runs, files, info, exit_status, start_vars, resampling_step, mp_vars,
                    stp_vars, parameters, n_generate, n_raised, n_alternative, n_generate_alt,
                    n_simulation, cl_vars, other_vars >>

\* lines 434-452: one iteration of the retry loop, try_generate_mesh on the original field
TryGenerateMesh ==
    /\ pc = "try_generate"
    /\ n_generate' = n_generate + 1
    /\ \E raises \in BOOLEAN :
          IF raises
          THEN /\ n_raised' = n_raised + 1
               /\ loop_i' = loop_i + 1
               /\ pc' = AfterAttempt(loop_i + 1, opts["mesh_generation_retries"])
               /\ last' = Op("generate_mesh", "raised", NoFile, solid_thickness_parameters)
               /\ mesh' = mesh
          ELSE /\ mesh' = [src |-> "generate_mesh", call |-> n_generate + 1]
               /\ pc' = AfterSuccess(loop_i + 1, opts["mesh_generation_retries"])
               /\ last' = Op("generate_mesh", "returned", NoFile, solid_thickness_parameters)
               /\ UNCHANGED << n_raised, loop_i >>
    /\ UNCHANGED << runs, files, info, exit_status, start_vars, resampling_step, mp_vars,
                    stp_vars, parameters, opts, log, n_alternative, n_generate_alt,
                    n_simulation, config, cl_vars, other_vars >>

\* lines 454-464: mesh_alternative, then one more try_generate_mesh
MeshAlternative ==
    /\ pc = "alternative"
    /\ n_alternative' = n_alternative + 1
    /\ n_generate_alt' = n_generate_alt + 1
    /\ \E raises \in BOOLEAN :
          IF raises
          THEN /\ Exit("-1")
               /\ last' = Op("generate_mesh", "raised", NoFile, solid_thickness_parameters)
               /\ mesh' = mesh
          ELSE /\ mesh' = [src |-> "mesh_alternative", call |-> n_generate_alt + 1]
               /\ pc' = "write_mesh"
               /\ last' = Op("generate_mesh", "returned", NoFile, solid_thickness_parameters)
               /\ UNCHANGED exit_status
    /\ UNCHANGED << runs, files, info, start_vars, resampling_step, mp_vars, stp_vars,
                    parameters, opts, log, loop_i, n_generate, n_raised, n_simulation, config,
                    cl_vars, other_vars >>

\* lines 466-487: assertions, write the mesh and the mesh IDs
WriteMesh ==
    /\ pc = "write_mesh"
    /\ \E has_points \in BOOLEAN :
          IF ~has_points
          THEN /\ Exit("AssertionError")
               /\ last' = Op("write_mesh", "raised", NoFile, <<>>)
               /\ UNCHANGED << files, info, parameters, opts, config >>
          ELSE \E mesh_format \in Choices("mesh_format", MeshFormats),
                  compress_mesh \in Choices("compress_mesh", BOOLEAN) :
                  /\ IF mesh_format \in {"xml", "hdf5"}
                     THEN /\ files' = files \cup
                                { file_name_surface_name, file_name_vtu_mesh,
                                  IF compress_mesh THEN file_name_xml_mesh_gz
                                                   ELSE file_name_xml_mesh }
                          /\ last' = Op("write_mesh", "write_mesh", NoFile, <<mesh>>)
                     ELSE /\ files' = files \cup {file_name_surface_name, file_name_vtu_mesh}
                          /\ last' = Op("write_mesh", "write_polydata", NoFile, <<mesh>>)
                  /\ config' = ("mesh_format" :> mesh_format) @@
                               ("compress_mesh" :> compress_mesh) @@ config
                  /\ opts' = ("file_name_xml_mesh" :>
                                 IF mesh_format \in {"xml", "hdf5"} /\ compress_mesh
                                 THEN file_name_xml_mesh_gz ELSE file_name_xml_mesh) @@ opts
                  /\ parameters' = parameters \cup {"mesh_ids"}
                  /\ info' = info \cup parameters'
                  /\ pc' = "convert"
                  /\ UNCHANGED exit_status
    /\ UNCHANGED << runs, start_vars, resampling_step, mp_vars, stp_vars, log, loop_i, mesh_vars,
                    n_simulation, cl_vars, other_vars >>

\* lines 491-508: conversion to the requested format.  A conversion reads the file it is
\* handed: when that file does not exist the reader raises and the run ends there.
Convert ==
    /\ pc = "convert"
    /\ CASE config["mesh_format"] = "hdf5" ->
              /\ last' = Op("convert", "convert_xml_mesh_to_hdf5",
                            opts["file_name_xml_mesh"], <<>>)
              /\ log' = Append(log, "convert_xml_mesh_to_hdf5")
              /\ IF isfile(opts["file_name_xml_mesh"])
                 THEN /\ files' = files \cup {file_name_hdf5_mesh, file_name_edge_length_xdmf}
                      /\ pc' = "find_boundaries"
                      /\ UNCHANGED exit_status
                 ELSE /\ Exit("RuntimeError")
                      /\ UNCHANGED files
         [] config["mesh_format"] = "xdmf" ->
              /\ last' = Op("convert", "convert_vtu_mesh_to_xdmf",
                            file_name_vtu_mesh, <<>>)
              /\ log' = Append(log, "convert_vtu_mesh_to_xdmf")
              /\ IF isfile(file_name_vtu_mesh)
                 THEN /\ files' = files \cup {file_name_xdmf_mesh, file_name_edge_length_xdmf}
                      /\ pc' = "find_boundaries"
                      /\ UNCHANGED exit_status
                 ELSE /\ Exit("RuntimeError")
                      /\ UNCHANGED files
         [] OTHER ->
              /\ files' = files
              /\ last' = NoOp
              /\ log' = log
              /\ pc' = "find_boundaries"
              /\ UNCHANGED exit_status
    /\ UNCHANGED << runs, info, start_vars, resampling_step, mp_vars, stp_vars, parameters, opts,
                    loop_i, mesh_vars, n_simulation, config, cl_vars, other_vars >>

\* lines 510-519: network, flow rates, boundary IDs
FindBoundaries ==
    /\ pc = "find_boundaries"
    /\ files' = files \cup {file_name_probe_points}
    /\ parameters' = info
    /\ log' = Append(log, "find_boundaries")
    /\ last' = NoOp
    /\ pc' = "visualize"
    /\ UNCHANGED << runs, info, exit_status, start_vars, resampling_step, mp_vars, stp_vars,
                    opts, loop_i, mesh_vars, n_simulation, config, cl_vars, other_vars >>

\* lines 521-525: optional render window
Visualize ==
    /\ pc = "visualize"
    /\ \E visualize \in BOOLEAN :
          pc' = "simulate"
    /\ UNCHANGED << runs, files, info, exit_status, start_vars, resampling_step, mp_vars,
                    stp_vars, parameters, opts, log, last, loop_i, mesh_vars, n_simulation,
                    config, cl_vars, other_vars >>

\* a test that starts the simulation whatever the configuration
HasServerConfiguration_always(config_path) == TRUE

\* line 528: config_path is not None
HasServerConfiguration(config_path) == config_path # None

\* lines 527-530: remote simulation when a server configuration is given
Simulate ==
    /\ pc = "simulate"
    /\ \E config_path \in {None, Some("ssh_config.json")} :
          /\ opts' = ("config_path" :> config_path) @@ opts
          /\ IF HasServerConfiguration(config_path)
             THEN /\ n_simulation' = n_simulation + 1
                  /\ log' = Append(log, "run_simulation")
             ELSE UNCHANGED << n_simulation, log >>
    /\ pc' = "remove_files"
    /\ UNCHANGED << runs, files, info, exit_status, start_vars, resampling_step, mp_vars,
                    stp_vars, parameters, last, loop_i, mesh_vars, config, cl_vars, other_vars >>

\* lines 532-541: remove the unused pre-processing files
RemoveFiles ==
    /\ pc = "remove_files"
    /\ files' = files \ files_to_remove
    /\ log' = Append(log, "remove_files")
    /\ pc' = "done"
    /\ UNCHANGED << runs, info, exit_status, start_vars, resampling_step, mp_vars, stp_vars,
                    parameters, opts, last, loop_i, mesh_vars, n_simulation, config,
                    cl_vars, other_vars >>

Next ==
    \/ StartRun
    \/ Uncap
    \/ CheckSurface
    \/ Capping
    \/ Centerlines
    \/ RegionCenterline
    \/ Smooth
    \/ VoronoiDiagram
    \/ VoronoiSmooth
    \/ NewSurface
    \/ FlowExtension
    \/ FlowCenterlines
    \/ DistanceToSphere
    \/ SolidThickness
    \/ Mesh
    \/ TryGenerateMesh
    \/ MeshAlternative
    \/ WriteMesh
    \/ Convert
    \/ FindBoundaries
    \/ Visualize
    \/ Simulate
    \/ RemoveFiles

Spec == Init /\ [][Next]_vars

\* ---------------------------------------------------- read_command_line
CLArguments ==
    [ meshing_method : MeshingMethods,
      edge_length : {None, Some(1)},
      refine_region : BOOLEAN,
      region_points : {None} \cup { Some([k \in 1 .. n |-> 1]) : n \in 1 .. MaxRegionCoords } ]

\* the checks without the test of refine_region
CheckArguments_norefine(args) ==
    IF args.meshing_method = "constant" /\ args.edge_length = None
    THEN "ValueError"
    ELSE IF args.region_points # None /\ Len(args.region_points.val) % 3 # 0
         THEN "ValueError"
         ELSE "returned"

\* lines 773-778: the two consistency checks on the parsed arguments
CheckArguments(args) ==
    IF args.meshing_method = "constant" /\ args.edge_length = None
    THEN "ValueError"
    ELSE IF args.refine_region /\ args.region_points # None
         THEN IF Len(args.region_points.val) % 3 # 0
              THEN "ValueError"
              ELSE "returned"
         ELSE "returned"

InitCL ==
    /\ InitRun
    /\ cl_args \in CLArguments
    /\ cl_result = "pending"
    /\ NoBoundaryConditions
    /\ NoSpectrogram
    /\ NoSeparation

\* lines 767-811: parse, check, return the dictionary
ReadCommandLine ==
    /\ cl_result = "pending"
    /\ cl_result' = CheckArguments(cl_args)
    /\ UNCHANGED << pc, runs, files, info, exit_status, start_vars, resampling_step, mp_vars,
                    stp_vars, parameters, config, opts, log, last, loop_i, mesh_vars,
                    n_simulation, cl_args, other_vars >>

NextCL == ReadCommandLine

SpecCL == InitCL /\ [][NextCL]_vars

\* ------------------------------------------------ simulations/avf.py
\* Times are integers in an arbitrary unit; an expression value is an integer number of
\* 1/Unit, so that the ramp factor -0.5*cos(..) + 0.5 is an integer in 0 .. Unit.
pre_vars == << pc, runs, files, info, exit_status, start_vars, resampling_step, mp_vars,
               stp_vars, parameters, config, opts, log, last, loop_i, mesh_vars,
               n_simulation >>

Unit == 2000

\* np.cos((pi / d) * x) in 1/1000 for 0 <= x <= d, by Bhaskara's approximation
\* cos(y) = (pi^2 - 4 y^2) / (pi^2 + y^2) on [-pi/2, pi/2] and cos(pi - y) = -cos(y)
cos_pi(x, d) ==
    IF 2 * x <= d
    THEN (1000 * (d * d - 4 * x * x)) \div (d * d + x * x)
    ELSE -((1000 * (d * d - 4 * (d - x) * (d - x))) \div (d * d + (d - x) * (d - x)))

\* -0.5 * np.cos((pi / d) * x) + 0.5 in 1/Unit
sigmoid(x, d) == 1000 - cos_pi(x, d)

TimeSteps == { 1, 2 }
RampTimes == 0 .. MaxRamp
PressureSamples == { -2, 3 }
VelocitySamples == { 1, 4 }

\* int(self.t / self.dt)
number_of(t, dt) == t \div dt

NoValue == [evaluated |-> FALSE]

\* lines 218-225: InnerP.__init__
InnerP(t, dt, p_t_ramp_start, p_t_ramp_end) ==
    [ created |-> TRUE, t |-> t, dt |-> dt, number |-> number_of(t, dt),
      p_t_ramp_start |-> p_t_ramp_start, p_t_ramp_end |-> p_t_ramp_end, value |-> NoValue ]

\* lines 125-141: VelIn1Para.__init__
VelIn1Para(t, dt, vel_t_ramp) ==
    [ created |-> TRUE, t |-> t, dt |-> dt, number |-> number_of(t, dt),
      t_ramp |-> vel_t_ramp, value |-> NoValue ]

\* lines 144-147, 228-231: update(t) of an expression over the waveform interp
update(self, t, interp) ==
    [ self EXCEPT !.t = t,
                  !.number = IF self.number + 1 < Len(interp)
                             THEN number_of(t, self.dt) ELSE self.number,
                  !.value = NoValue ]

\* a ramp test that takes the end of the ramp into the ramp
InRamp_inclusive(self) == self.t <= self.p_t_ramp_end

\* line 237: elif self.t < self.p_t_ramp_end
InRamp(self) == self.t < self.p_t_ramp_end

Evaluated(branch, factor, sample, error) ==
    [ evaluated |-> TRUE, branch |-> branch, factor |-> factor, sample |-> sample,
      value |-> sample * factor, error |-> error ]

\* lines 234-240: InnerP.eval; interp_P[self.number] is interp_P[self.number + 1] here
InnerP_eval(self) ==
    IF self.t < self.p_t_ramp_start
    THEN Evaluated("zero", 0, 0, "none")
    ELSE IF InRamp(self)
         THEN IF self.p_t_ramp_end - self.p_t_ramp_start = 0
              THEN Evaluated("ramp", 0, interp_P[self.number + 1], "ZeroDivisionError")
              ELSE Evaluated("ramp",
                             sigmoid(self.t - self.p_t_ramp_start,
                                     self.p_t_ramp_end - self.p_t_ramp_start),
                             interp_P[self.number + 1], "none")
         ELSE Evaluated("full", Unit, interp_P[self.number + 1], "none")

\* lines 150-164: VelIn1Para.eval, the factor of -n[i] * fact_r
VelIn1Para_eval(self) ==
    IF self.t < self.t_ramp /\ self.t_ramp > 0
    THEN IF self.t_ramp = 0
         THEN Evaluated("ramp", 0, interp_PA[self.number + 1], "ZeroDivisionError")
         ELSE Evaluated("ramp", sigmoid(self.t, self.t_ramp),
                        interp_PA[self.number + 1], "none")
    ELSE Evaluated("full", Unit, interp_PA[self.number + 1], "none")

\* lines 248-303: create_bcs has built the waveforms and the expressions at t = 0.0
InitBC ==
    /\ InitRun
    /\ NoCommandLine
    /\ default_variables \in [ dt : TimeSteps, vel_t_ramp : RampTimes,
                               p_t_ramp_start : RampTimes, p_t_ramp_end : RampTimes ]
    /\ interp_P \in [1 .. NumSamples -> PressureSamples]
    /\ interp_PA \in { [i \in 1 .. NumSamples |-> v] : v \in VelocitySamples }
    /\ p_out_bc_val = InnerP(0, default_variables.dt, default_variables.p_t_ramp_start,
                             default_variables.p_t_ramp_end)
    /\ u_inflow_exp1 = VelIn1Para(0, default_variables.dt, default_variables.vel_t_ramp)
    /\ NoSpectrogram
    /\ NoSeparation

\* lines 306-310: pre_solve at the next time step of the solver, up to T
pre_solve ==
    /\ p_out_bc_val.t + default_variables.dt <= NumSamples * default_variables.dt
    /\ LET t == p_out_bc_val.t + default_variables.dt
       IN  /\ u_inflow_exp1' = update(u_inflow_exp1, t, interp_PA)
           /\ p_out_bc_val' = update(p_out_bc_val, t, interp_P)
    /\ UNCHANGED << pre_vars, cl_vars, spectrogram_vars, domain_vars,
                    default_variables, interp_P, interp_PA >>

\* lines 234-240: the assembly evaluates the pressure expression
EvalInnerP ==
    /\ p_out_bc_val' = [p_out_bc_val EXCEPT !.value = InnerP_eval(p_out_bc_val)]
    /\ UNCHANGED << pre_vars, cl_vars, spectrogram_vars, domain_vars,
                    default_variables, interp_P, interp_PA, u_inflow_exp1 >>

\* lines 150-164: the assembly evaluates the inlet velocity expression
EvalVelIn1Para ==
    /\ u_inflow_exp1' = [u_inflow_exp1 EXCEPT !.value = VelIn1Para_eval(u_inflow_exp1)]
    /\ UNCHANGED << pre_vars, cl_vars, spectrogram_vars, domain_vars,
                    default_variables, interp_P, interp_PA, p_out_bc_val >>

NextBC ==
    \/ pre_solve
    \/ EvalInnerP
    \/ EvalVelIn1Para

SpecBC == InitBC /\ [][NextBC]_vars

\* ------------------- postprocessing_h5py/create_spectrogram_from_components.py
\* The arrays hold floating-point numbers.  A number is an integer here, and the result of
\* an operation is rounded to Precision significant bits (round to nearest, ties to even,
\* smallest spacing 1), as a binary floating-point format of that precision rounds it.
Precision == 3

RECURSIVE BitLength(_)
BitLength(n) == IF n = 0 THEN 0 ELSE 1 + BitLength(n \div 2)

RECURSIVE Pow2(_)
Pow2(k) == IF k = 0 THEN 1 ELSE 2 * Pow2(k - 1)

\* the floating-point number nearest to num / den, for den > 0
fl(num, den) ==
    LET a == IF num < 0 THEN -num ELSE num
        bits == BitLength(a \div den)
        k == IF bits > Precision THEN bits - Precision ELSE 0
        s == Pow2(k) * den
        m == a \div s
        r == a - m * s
        up == 2 * r > s \/ (2 * r = s /\ m % 2 = 1)
        mm == IF up THEN m + 1 ELSE m
    IN  IF num < 0 THEN -(mm * Pow2(k)) ELSE mm * Pow2(k)

\* a + b and a / n on floating-point numbers
fl_add(a, b) == fl(a + b, 1)
fl_div(a, n) == fl(a, n)

\* the values and frequencies found in the csv files (floating-point numbers)
SpectrogramValues == { 8, 64 }
FrequencyAxes == { [r \in 1 .. NumRows |-> f * r] : f \in {1, 2, 3} }

\* np.loadtxt of a spectrogram csv file: NumRows rows of a frequency and NumBins values
SpectrogramData ==
    { [r \in 1 .. NumRows |-> <<axis[r]>> \o row[r]] :
         axis \in FrequencyAxes,
         row \in [1 .. NumRows -> [1 .. NumBins -> SpectrogramValues]] }

\* a slice that keeps the frequency column
slice_all_columns(data) == data

\* data[:,1:]
slice_from_1(data) == [r \in DOMAIN data |-> Tail(data[r])]

\* data[:,0]
column_0(data) == [r \in DOMAIN data |-> data[r][1]]

\* a + b on arrays of the same shape
array_add(a, b) == [r \in DOMAIN a |-> [c \in DOMAIN a[r] |-> fl_add(a[r][c], b[r][c])]]

\* a / n on an array
array_div(a, n) == [r \in DOMAIN a |-> [c \in DOMAIN a[r] |-> fl_div(a[r][c], n)]]

\* line 66: (csv_x_data[:,1:] + csv_y_data[:,1:] + csv_z_data[:,1:])/3
average(x, y, z) ==
    array_div(array_add(array_add(slice_from_1(x), slice_from_1(y)), slice_from_1(z)), 3)

\* lines 57-60: the three csv files have been read
InitSpectrogram ==
    /\ InitRun
    /\ NoCommandLine
    /\ NoBoundaryConditions
    /\ csv_x_data \in SpectrogramData
    /\ csv_y_data \in SpectrogramData
    /\ csv_z_data \in SpectrogramData
    /\ freqs = <<>>
    /\ Pxx = <<>>
    /\ NoSeparation

\* lines 62-66: frequency axis and average of the components
create_spectrogram_composite ==
    /\ Pxx = <<>>
    /\ freqs' = column_0(csv_x_data)
    /\ Pxx' = average(csv_x_data, csv_y_data, csv_z_data)
    /\ UNCHANGED << pre_vars, cl_vars, bc_vars, domain_vars, csv_vars >>

NextSpectrogram == create_spectrogram_composite

SpecSpectrogram == InitSpectrogram /\ [][NextSpectrogram]_vars

\* ------------- automatedPostprocessing/postprocessing_mesh/separate_domain.py
\* The mesh file holds NumCells cells of NodesPerCell nodes out of NumNodes nodes; node ids
\* start at 0 as in the file, so the arrays indexed by a node id are read at id + 1.
fluid_domain_id == 1
solid_domain_id == 2

\* the nodes of a cell, as an increasing list of distinct node ids
Cells ==
    { cell \in [1 .. NodesPerCell -> 0 .. (NumNodes - 1)] :
         \A i, j \in 1 .. NodesPerCell : i < j => cell[i] < cell[j] }

\* lines 51-54: the arrays of the mesh file; the coordinates of node g are 100 + g
MeshFiles ==
    [ domains_values : [1 .. NumCells -> {fluid_domain_id, solid_domain_id}],
      domain_topology : [1 .. NumCells -> Cells],
      domain_coordinates : { [g \in 1 .. NumNodes |-> 100 + (g - 1)] } ]

RECURSIVE SelectRows(_, _, _)
\* array[index, :] - the rows of array, from row i on, that index selects
SelectRows(array, index, i) ==
    IF i > Len(array) THEN <<>>
    ELSE (IF index[i] THEN <<array[i]>> ELSE <<>>) \o SelectRows(array, index, i + 1)

RECURSIVE unique_descending(_)
\* the distinct values in decreasing order
unique_descending(S) ==
    IF S = {} THEN <<>>
    ELSE LET m == CHOOSE x \in S : \A y \in S : y <= x
         IN  <<m>> \o unique_descending(S \ {m})

RECURSIVE unique(_)
\* np.unique: the distinct values in increasing order
unique(S) ==
    IF S = {} THEN <<>>
    ELSE LET m == CHOOSE x \in S : \A y \in S : x <= y
         IN  <<m>> \o unique(S \ {m})

\* the values of a two-dimensional array
Entries(array) == { array[r][c] : r \in DOMAIN array, c \in 1 .. NodesPerCell }

\* np.where(array == old, new, array)
where(array, old, new) ==
    [r \in DOMAIN array |->
        [c \in DOMAIN array[r] |-> IF array[r][c] = old THEN new ELSE array[r][c]]]

domain_id_of(name) == IF name = "fluid" THEN fluid_domain_id ELSE solid_domain_id

\* lines 51-54: the mesh file has been read
InitDomain ==
    /\ InitRun
    /\ NoCommandLine
    /\ NoBoundaryConditions
    /\ NoSpectrogram
    /\ vectorData \in MeshFiles
    /\ sd_pc = "extract"
    /\ domain_name = "fluid"
    /\ domain_of_interest_topology = <<>>
    /\ domain_of_interest_ids = <<>>
    /\ domain_of_interest_coordinates = <<>>
    /\ node_id = 0
    /\ hits = <<>>
    /\ fixed_files = <<>>

\* lines 59-62: cells, node ids and coordinates of the domain
ExtractDomain ==
    /\ sd_pc = "extract"
    /\ LET domain_of_interest_index ==
              [i \in 1 .. NumCells |->
                  vectorData.domains_values[i] = domain_id_of(domain_name)]
           topology == SelectRows(vectorData.domain_topology, domain_of_interest_index, 1)
           ids == unique(Entries(topology))
       IN  /\ domain_of_interest_topology' = topology
           /\ domain_of_interest_ids' = ids
           /\ domain_of_interest_coordinates' =
                 [k \in DOMAIN ids |-> vectorData.domain_coordinates[ids[k] + 1]]
           /\ hits' = [r \in DOMAIN topology |-> [c \in 1 .. NodesPerCell |-> 0]]
           /\ sd_pc' = IF Len(ids) > 0 THEN "fix" ELSE "save"
    /\ node_id' = 0
    /\ UNCHANGED << pre_vars, cl_vars, bc_vars, spectrogram_vars, vectorData, domain_name,
                    fixed_files >>

\* lines 66-68: one iteration of "for node_id in range(len(domain_of_interest_ids))"
FixTopology ==
    /\ sd_pc = "fix"
    /\ domain_of_interest_topology' =
          where(domain_of_interest_topology, domain_of_interest_ids[node_id + 1], node_id)
    /\ hits' = [r \in DOMAIN hits |->
                  [c \in DOMAIN hits[r] |->
                      IF domain_of_interest_topology[r][c] = domain_of_interest_ids[node_id + 1]
                      THEN hits[r][c] + 1 ELSE hits[r][c]]]
    /\ node_id' = node_id + 1
    /\ sd_pc' = IF node_id + 1 < Len(domain_of_interest_ids) THEN "fix" ELSE "save"
    /\ UNCHANGED << pre_vars, cl_vars, bc_vars, spectrogram_vars, vectorData, domain_name,
                    domain_of_interest_ids, domain_of_interest_coordinates, fixed_files >>

\* lines 70-85: write coordinates and topology to the fixed mesh file of the domain
SaveFixedMesh ==
    /\ sd_pc = "save"
    /\ fixed_files' =
          (domain_name :> [ coordinates |-> domain_of_interest_coordinates,
                            topology |-> domain_of_interest_topology ]) @@ fixed_files
    /\ IF domain_name = "fluid"
       THEN /\ domain_name' = "solid"
            /\ sd_pc' = "extract"
       ELSE /\ domain_name' = domain_name
            /\ sd_pc' = "done"
    /\ UNCHANGED << pre_vars, cl_vars, bc_vars, spectrogram_vars, vectorData,
                    domain_of_interest_vars, node_id, hits >>

NextDomain ==
    \/ ExtractDomain
    \/ FixTopology
    \/ SaveFixedMesh

SpecDomain == InitDomain /\ [][NextDomain]_vars

\* ================================================================ claims
Range(seq) == { seq[i] : i \in DOMAIN seq }

StageOrder ==
    << "surface_cleaning", "capping", "centerlines", "smoothing", "flow_extension",
       "distance_field", "mesh_generation", "find_boundaries" >>

StageRank(s) == CHOOSE r \in DOMAIN StageOrder : StageOrder[r] = s

\* C1: the stages start in the order cleaning, capping, centerlines, smoothing, flow
\* extension, distance field, mesh generation, find_boundaries: when a stage is reached,
\* every earlier stage has been reached before it, and a run that exited has not reached
\* find_boundaries.
C1_StagesInOrder ==
    /\ \A i \in DOMAIN log :
          log[i] \in Range(StageOrder) =>
             \A r \in 1 .. (StageRank(log[i]) - 1) :
                \E j \in 1 .. (i - 1) : log[j] = StageOrder[r]
    /\ exit_status # "none" => "find_boundaries" \notin Range(log)

C1_Witness ==
    /\ pc = "done"
    /\ Range(StageOrder) \subseteq Range(log)

CheckpointStages ==
    { "clipped_model", "voronoi", "voronoi_smooth", "surface_smooth", "model_flow_ext",
      "flow_centerlines", "distance_to_sphere_constant", "distance_to_sphere_curvature",
      "distance_to_sphere_diameter", "distance_to_sphere_distancetospheres",
      "solid_thickness_variable", "vtu_mesh" }

\* C2 as stated: a checkpointed stage reads its file when the file exists and invokes its
\* computation when it does not.
C2_Original ==
    last.stage \in CheckpointStages =>
       /\ last.existed => last.mode = "read"
       /\ ~last.existed => last.mode = "computed"

\* C2 amended: a checkpointed stage reads its file when the file exists; when it does not,
\* the computation is invoked, except that the 'distancetospheres' field exits with -1 on a
\* meshing_parameters list that has not four entries and the variable solid thickness exits
\* with -1 on a list that has neither four entries nor none.
C2_Checkpointing ==
    last.stage \in CheckpointStages =>
       /\ last.existed => last.mode = "read"
       /\ ~last.existed =>
             IF \/ /\ last.stage = "distance_to_sphere_distancetospheres"
                   /\ Len(in_meshing_parameters) # 4
                \/ /\ last.stage = "solid_thickness_variable"
                   /\ Len(in_solid_thickness_parameters) \notin {0, 4}
             THEN last.mode = "exit" /\ pc = "exit" /\ exit_status = "-1"
             ELSE last.mode = "computed"

C2_Witness ==
    /\ last.stage = "vtu_mesh"
    /\ last.existed
    /\ last.mode = "read"
    /\ mesh.src = "read_polydata"

RetriesDrawn == "mesh_generation_retries" \in DOMAIN opts

AfterMeshing ==
    pc \in { "write_mesh", "convert", "find_boundaries", "visualize", "simulate",
             "remove_files", "done" }

\* C3: for mesh_generation_retries >= 0, generate_mesh is invoked at most
\* mesh_generation_retries + 1 times on the original field and at most once on the output
\* of mesh_alternative, and a run that is past the meshing has a mesh.
C3_BoundedMeshGeneration ==
    (RetriesDrawn /\ opts["mesh_generation_retries"] >= 0) =>
       /\ n_generate <= opts["mesh_generation_retries"] + 1
       /\ n_generate_alt <= 1
       /\ n_generate + n_generate_alt <= opts["mesh_generation_retries"] + 2
       /\ AfterMeshing => mesh # NoMesh

C3_Witness ==
    /\ RetriesDrawn
    /\ opts["mesh_generation_retries"] = 1
    /\ n_generate = 2
    /\ n_generate_alt = 1
    /\ pc = "write_mesh"

\* C4: mesh_alternative is invoked at most once, and it is invoked if and only if the
\* initial generate_mesh attempt and all mesh_generation_retries retries raised.
C4_AlternativeAfterRetries ==
    RetriesDrawn =>
       /\ n_alternative <= 1
       /\ n_alternative = 1 =>
             /\ n_generate >= 1
             /\ n_raised = n_generate
             /\ n_raised = opts["mesh_generation_retries"] + 1
       /\ ( /\ pc \notin {"try_generate", "alternative"}
            /\ n_generate >= 1
            /\ n_raised = opts["mesh_generation_retries"] + 1 ) => n_alternative = 1

\* C5: in a run with remove_all no stage takes its result from a file and the surface
\* check is performed again.
C5_RemoveAllRecomputes ==
    (remove_all /\ pc # "idle") => last.mode # "read"

\* C6: run_simulation is invoked exactly when config_path is not None and the run is past
\* the meshing, after find_boundaries and before the pre-processing files are removed.
C6_SimulationIffConfigured ==
    /\ n_simulation <= 1
    /\ (n_simulation = 1) <=> ("run_simulation" \in Range(log))
    /\ pc \in {"remove_files", "done"} =>
          ((n_simulation = 1) <=> (opts["config_path"] # None))
    /\ pc \notin {"remove_files", "done"} => n_simulation = 0
    /\ \A i \in DOMAIN log :
          log[i] = "run_simulation" =>
             /\ \E j \in 1 .. (i - 1) : log[j] = "find_boundaries"
             /\ \A j \in 1 .. (i - 1) : log[j] # "remove_files"

C6_Witness ==
    /\ pc = "done"
    /\ n_simulation = 1
    /\ opts["config_path"] # None
    /\ log[Len(log)] = "remove_files"

\* C7: read_command_line raises ValueError exactly when the method is 'constant' without
\* an edge length, or refine_region is set and the number of region-point coordinates is
\* not a multiple of 3; otherwise it returns; no pre-processing has run.
C7_RejectsInconsistentArguments ==
    cl_result # "pending" =>
       LET n == IF cl_args.region_points = None THEN 0 ELSE Len(cl_args.region_points.val)
           inconsistent ==
              \/ cl_args.meshing_method = "constant" /\ cl_args.edge_length = None
              \/ cl_args.refine_region /\ n % 3 # 0
       IN  /\ inconsistent => cl_result = "ValueError"
           /\ ~inconsistent => cl_result = "returned"
           /\ pc = "idle" /\ runs = 0

C7_Witness ==
    /\ cl_result = "ValueError"
    /\ cl_args.meshing_method # "constant"
    /\ cl_args.refine_region
    /\ cl_args.region_points # None

ThicknessChecked == last.stage \in {"solid_thickness_constant", "solid_thickness_variable"}

NoMeshGenerated == n_generate = 0 /\ n_generate_alt = 0

\* C8 as stated: past the solid-thickness step only with a single positive number
\* ('constant') or four numbers ('variable'); otherwise exit -1 without generate_mesh.
C8_Original ==
    ThicknessChecked =>
       LET stp == in_solid_thickness_parameters
           valid == IF config["solid_thickness"] = "constant"
                    THEN Len(stp) = 1 /\ stp[1] > 0
                    ELSE Len(stp) = 4
       IN  /\ pc = "mesh" => valid
           /\ ~valid => (pc = "exit" /\ exit_status = "-1" /\ NoMeshGenerated)

\* C8 amended: with 'constant' the run goes on to the meshing only with a single positive
\* number; with 'variable' and no solid-thickness file, only with four numbers or an empty
\* list (the defaults); otherwise it exits with -1 and generate_mesh is not invoked.  With
\* 'variable' and an existing solid-thickness file the list is not validated.
C8_ThicknessValidated ==
    ThicknessChecked =>
       LET stp == in_solid_thickness_parameters
           valid == IF config["solid_thickness"] = "constant"
                    THEN Len(stp) = 1 /\ stp[1] > 0
                    ELSE last.existed \/ Len(stp) \in {0, 4}
       IN  /\ valid => pc = "mesh"
           /\ ~valid => (pc = "exit" /\ exit_status = "-1" /\ NoMeshGenerated)

C8_Witness ==
    /\ last.stage = "solid_thickness_variable"
    /\ ~last.existed
    /\ Len(in_solid_thickness_parameters) = 1
    /\ pc = "exit"

SpheresChecked == last.stage = "distance_to_sphere_distancetospheres"

\* C9 as stated: with 'distancetospheres', a meshing_parameters list that has not four
\* entries makes the run exit with -1 without generate_mesh.
C9_Original ==
    (SpheresChecked /\ Len(in_meshing_parameters) # 4) =>
       (pc = "exit" /\ exit_status = "-1" /\ NoMeshGenerated)

\* C9 amended: the same, when the distance-to-sphere file of the method does not exist;
\* when it exists the list is not validated and the run goes on.
C9_MeshingParametersValidated ==
    SpheresChecked =>
       /\ (~last.existed /\ Len(in_meshing_parameters) # 4) =>
             (pc = "exit" /\ exit_status = "-1" /\ NoMeshGenerated)
       /\ (last.existed \/ Len(in_meshing_parameters) = 4) => pc = "solid_thickness"

C9_Witness ==
    /\ SpheresChecked
    /\ ~last.existed
    /\ Len(in_meshing_parameters) = 3
    /\ pc = "exit"

\* the list after scaling 'offset', 'min' and 'max' and leaving 'scale'
Scaled4(list) ==
    << list[1] * scale_factor.val, list[2], list[3] * scale_factor.val,
       list[4] * scale_factor.val >>

Conversions == { "convert_xml_mesh_to_hdf5", "convert_vtu_mesh_to_xdmf" }

Count(seq, S) == Cardinality({ i \in DOMAIN seq : seq[i] \in S })

PastConversion == pc \in { "find_boundaries", "visualize", "simulate", "remove_files", "done" }

\* C11: the mesh is produced in the requested format: a generated mesh is written by
\* write_mesh for 'xml' and 'hdf5' and as .vtu mesh and remeshed surface only for 'xdmf';
\* no conversion is invoked for 'xml', convert_xml_mesh_to_hdf5 for 'hdf5' and
\* convert_vtu_mesh_to_xdmf for 'xdmf'; a run invokes at most one conversion, only when the
\* .vtu mesh exists, and the conversion is handed a mesh file that exists, so that the run
\* goes on with the mesh in the requested format.
C11_MeshInRequestedFormat ==
    /\ (last.stage = "write_mesh" /\ last.mode # "raised") =>
          IF config["mesh_format"] \in {"xml", "hdf5"}
          THEN /\ last.mode = "write_mesh"
               /\ { file_name_surface_name, file_name_vtu_mesh,
                    opts["file_name_xml_mesh"] } \subseteq files
          ELSE /\ last.mode = "write_polydata"
               /\ {file_name_surface_name, file_name_vtu_mesh} \subseteq files
               /\ files \cap {file_name_xml_mesh, file_name_xml_mesh_gz} = {}
    /\ Count(log, Conversions) <= 1
    /\ Count(log, Conversions) = 1 => file_name_vtu_mesh \in files
    /\ \A i \in DOMAIN log :
          /\ log[i] = "convert_xml_mesh_to_hdf5" => config["mesh_format"] = "hdf5"
          /\ log[i] = "convert_vtu_mesh_to_xdmf" => config["mesh_format"] = "xdmf"
    /\ PastConversion =>
          Count(log, Conversions) = IF config["mesh_format"] = "xml" THEN 0 ELSE 1
    /\ last.stage = "convert" =>
          /\ last.existed
          /\ exit_status = "none"
          /\ IF config["mesh_format"] = "hdf5"
             THEN file_name_hdf5_mesh \in files
             ELSE file_name_xdmf_mesh \in files

\* the sample interp_P[self.number] of the pressure expression
PressureSample == interp_P[p_out_bc_val.number + 1]

PressureEvaluated == p_out_bc_val.created /\ p_out_bc_val.value.evaluated

VelocityEvaluated == u_inflow_exp1.created /\ u_inflow_exp1.value.evaluated

\* C12 as stated: the value of InnerP is 0 for t < p_t_ramp_start, interp_P[number] times
\* a factor between 0 and 1 for p_t_ramp_start <= t < p_t_ramp_end, and interp_P[number]
\* for t >= p_t_ramp_end; no evaluation divides by a zero ramp duration.
C12_Original ==
    /\ PressureEvaluated =>
          LET self == p_out_bc_val
              value == p_out_bc_val.value
          IN  /\ value.error = "none"
              /\ self.t < self.p_t_ramp_start => value.value = 0
              /\ (self.p_t_ramp_start <= self.t /\ self.t < self.p_t_ramp_end) =>
                    /\ value.factor \in 0 .. Unit
                    /\ value.value = PressureSample * value.factor
              /\ self.t >= self.p_t_ramp_end => value.value = PressureSample * Unit
    /\ VelocityEvaluated => u_inflow_exp1.value.error = "none"

\* C12 amended: the value of InnerP is 0 for t < p_t_ramp_start (also when
\* p_t_ramp_end <= t, which happens with p_t_ramp_end < p_t_ramp_start), interp_P[number]
\* times a factor between 0 and 1 for p_t_ramp_start <= t < p_t_ramp_end, and
\* interp_P[number] when t >= p_t_ramp_end and t >= p_t_ramp_start; no evaluation of the
\* pressure or of the velocity expression divides by a zero ramp duration.
C12_ThreePhaseRamp ==
    /\ PressureEvaluated =>
          LET self == p_out_bc_val
              value == p_out_bc_val.value
          IN  /\ value.error = "none"
              /\ self.t < self.p_t_ramp_start => value.value = 0
              /\ (self.p_t_ramp_start <= self.t /\ self.t < self.p_t_ramp_end) =>
                    /\ value.factor \in 0 .. Unit
                    /\ value.value = PressureSample * value.factor
              /\ (self.t >= self.p_t_ramp_end /\ self.t >= self.p_t_ramp_start) =>
                    value.value = PressureSample * Unit
    /\ VelocityEvaluated =>
          /\ u_inflow_exp1.value.error = "none"
          /\ u_inflow_exp1.value.factor \in 0 .. Unit

C12_Witness ==
    /\ PressureEvaluated
    /\ p_out_bc_val.value.branch = "ramp"
    /\ p_out_bc_val.value.factor \in 1 .. (Unit - 1)
    /\ p_out_bc_val.value.value = PressureSample * p_out_bc_val.value.factor
    /\ VelocityEvaluated
    /\ default_variables.vel_t_ramp = 0

Composed == Pxx # <<>>

\* the entry (x + y + z) / 3 of row r and value column c, with the sums taken in this order
Mean3(x, y, z, r, c) == fl_div(fl_add(fl_add(x[r][c + 1], y[r][c + 1]), z[r][c + 1]), 3)

\* the orders in which the data of the three files can be handed over
Orders == { p \in [1 .. 3 -> 1 .. 3] : \A i, j \in 1 .. 3 : p[i] = p[j] => i = j }

Component(i) == << csv_x_data, csv_y_data, csv_z_data >>[i]

\* C13 as stated: every entry of Pxx is (x + y + z) / 3 of the corresponding entries with
\* the frequency column excluded, Pxx is the same for every permutation of the data of the
\* three files, and the frequency axis is the first column of the x file.
C13_Original ==
    Composed =>
       /\ \A r \in 1 .. NumRows, c \in 1 .. NumBins :
             Pxx[r][c] = Mean3(csv_x_data, csv_y_data, csv_z_data, r, c)
       /\ \A p \in Orders :
             average(Component(p[1]), Component(p[2]), Component(p[3])) = Pxx
       /\ freqs = column_0(csv_x_data)

\* C13 amended: Pxx has one row per frequency and one column per value column of the
\* files, every entry is ((x + y) + z) / 3 of the corresponding entries in floating-point
\* arithmetic with the frequency column excluded, Pxx is the same when the data of the x
\* and y files are exchanged, and the frequency axis is the first column of the x file.
C13_AverageOfComponents ==
    Composed =>
       /\ DOMAIN Pxx = 1 .. NumRows
       /\ \A r \in 1 .. NumRows :
             /\ DOMAIN Pxx[r] = 1 .. NumBins
             /\ \A c \in 1 .. NumBins :
                   Pxx[r][c] = Mean3(csv_x_data, csv_y_data, csv_z_data, r, c)
       /\ average(csv_y_data, csv_x_data, csv_z_data) = Pxx
       /\ freqs = column_0(csv_x_data)

C13_Witness ==
    /\ Composed
    /\ csv_x_data # csv_y_data
    /\ csv_y_data # csv_z_data
    /\ csv_x_data # csv_z_data
    /\ column_0(csv_x_data) # column_0(csv_y_data)
    /\ Pxx[1][1] # csv_x_data[1][2]
    /\ average(csv_z_data, csv_y_data, csv_x_data) # Pxx

\* the rows of the mesh topology that belong to the domain, with the global node ids
GlobalTopology(name) ==
    SelectRows(vectorData.domain_topology,
               [i \in 1 .. NumCells |-> vectorData.domains_values[i] = domain_id_of(name)], 1)

\* the rank of the node id g among the distinct node ids of an array
Rank(g, array) == Cardinality({ h \in Entries(array) : h < g })

\* the topology and the coordinates are those of the domain with every node id replaced by
\* its rank
Renumbered(name, topology, coordinates) ==
    LET global == GlobalTopology(name)
        n == Cardinality(Entries(global))
    IN  /\ DOMAIN topology = DOMAIN global
        /\ Len(coordinates) = n
        /\ \A r \in DOMAIN global, c \in 1 .. NodesPerCell :
              /\ topology[r][c] = Rank(global[r][c], global)
              /\ topology[r][c] \in 0 .. (n - 1)
              /\ coordinates[topology[r][c] + 1] =
                    vectorData.domain_coordinates[global[r][c] + 1]
        /\ \A r1, r2 \in DOMAIN global, c1, c2 \in 1 .. NodesPerCell :
              global[r1][c1] # global[r2][c2] => topology[r1][c1] # topology[r2][c2]

\* C14: after the renumbering loop every topology entry of the domain is the rank of its
\* global node id among the sorted distinct node ids of the domain, every entry has been
\* replaced exactly once, distinct global ids have distinct local ids, every entry lies in
\* 0 .. len(ids) - 1 and indexes the row of the extracted coordinates that holds the
\* coordinates of its node; the arrays written to the fixed mesh files are these.
C14_ConsistentRenumbering ==
    /\ sd_pc = "save" =>
          /\ Renumbered(domain_name, domain_of_interest_topology,
                        domain_of_interest_coordinates)
          /\ \A r \in DOMAIN hits, c \in 1 .. NodesPerCell : hits[r][c] = 1
          /\ node_id = Len(domain_of_interest_ids)
    /\ sd_pc = "fix" =>
          \A r \in DOMAIN hits, c \in 1 .. NodesPerCell : hits[r][c] <= 1
    /\ \A name \in DOMAIN fixed_files :
          Renumbered(name, fixed_files[name].topology, fixed_files[name].coordinates)

C14_Witness ==
    /\ sd_pc = "done"
    /\ DOMAIN fixed_files = {"fluid", "solid"}
    /\ fixed_files["solid"].topology # GlobalTopology("solid")
    /\ Len(fixed_files["solid"].coordinates) = NodesPerCell
    /\ Len(fixed_files["fluid"].topology) >= 1
    /\ 0 \in Entries(GlobalTopology("fluid"))
    /\ 0 \notin Entries(GlobalTopology("solid"))

\* generate_mesh calls on the original field that returned a mesh
n_returned == n_generate - n_raised

Written == last.stage = "write_mesh" /\ last.mode # "raised"

\* C15: at most one generate_mesh call of a run returns a mesh; once a call has returned
\* one, the run is past the retry loop, generate_mesh is not invoked again and
\* mesh_alternative is not invoked, and the mesh handed to the writer is the one that
\* call returned.
C15_StopsAtFirstSuccess ==
    /\ n_returned \in {0, 1}
    /\ n_returned = 1 =>
          /\ pc \notin {"try_generate", "alternative"}
          /\ n_alternative = 0
          /\ n_generate_alt = 0
          /\ mesh = [src |-> "generate_mesh", call |-> n_generate]
    /\ mesh.src = "mesh_alternative" =>
          /\ pc \notin {"try_generate", "alternative"}
          /\ n_returned = 0
          /\ n_generate_alt = 1
    /\ Written =>
          /\ last.params = <<mesh>>
          /\ mesh.src \in {"generate_mesh", "mesh_alternative"}
          /\ mesh.src = "generate_mesh" => (n_returned = 1 /\ mesh.call = n_generate)
          /\ mesh.src = "mesh_alternative" => (n_returned = 0 /\ mesh.call = 1)

C15_Witness ==
    /\ Written
    /\ RetriesDrawn
    /\ opts["mesh_generation_retries"] = MaxRetries
    /\ n_generate = 1
    /\ n_raised = 0
    /\ mesh = [src |-> "generate_mesh", call |-> 1]
    /\ file_name_vtu_mesh \in files

ErrorExits == { "-1", "RuntimeError", "AssertionError" }

\* the file of a checkpointed stage; the region centerline is that of the iteration done
StageFile(stage) ==
    CASE stage = "clipped_model" -> file_name_clipped_model
      [] stage = "region_centerline" -> format(loop_i - 1)
      [] stage = "voronoi" -> file_name_voronoi
      [] stage = "voronoi_smooth" -> file_name_voronoi_smooth
      [] stage = "surface_smooth" -> file_name_surface_smooth
      [] stage = "model_flow_ext" -> file_name_model_flow_ext
      [] stage = "flow_centerlines" -> file_name_flow_centerlines
      [] stage = "distance_to_sphere_constant" -> file_name_distance_to_sphere_const
      [] stage = "distance_to_sphere_curvature" -> file_name_distance_to_sphere_curv
      [] stage = "distance_to_sphere_diameter" -> file_name_distance_to_sphere_diam
      [] stage = "distance_to_sphere_distancetospheres" -> file_name_distance_to_sphere_spheres
      [] stage = "solid_thickness_variable" -> file_name_distance_to_sphere_solid_thickness
      [] stage = "vtu_mesh" -> file_name_vtu_mesh
      [] OTHER -> NoFile

AfterErrorExit == previous.exit_status \in ErrorExits /\ ~remove_all

\* a step of a run removes no file unless it is the removal at the end of a complete run or
\* the removal asked for by remove_all; an error exit leaves files and parameters as they
\* are, and so does the start of the next run without remove_all
KeepsCheckpoints ==
    /\ pc' = "exit" => (files \subseteq files' /\ info \subseteq info')
    /\ pc \notin {"idle", "done", "exit", "remove_files"} => files \subseteq files'
    /\ (pc = "exit" /\ pc' # "exit" /\ ~remove_all') => (files' = files /\ info' = info)

\* in the run after an error exit, without remove_all, the files the failed run left are
\* there until the removal at the end, and a checkpointed stage whose file was left is
\* read from it
ReadsCheckpoints ==
    AfterErrorExit =>
       /\ pc # "done" => previous.files \subseteq files
       /\ (last.stage \in CheckpointStages \cup {"region_centerline"}
              /\ StageFile(last.stage) \in previous.files) => last.mode = "read"

\* C16: a run that ends on an error exit removes no file, every file written before the
\* exit remains, and the next run without remove_all takes the result of each checkpointed
\* stage whose file was left from that file.
C16_ErrorExitKeepsCheckpoints == []ReadsCheckpoints /\ [][KeepsCheckpoints]_vars

C16_Witness ==
    /\ AfterErrorExit
    /\ previous.exit_status = "AssertionError"
    /\ last.stage = "solid_thickness_variable"
    /\ last.mode = "read"
    /\ file_name_distance_to_sphere_solid_thickness \in previous.files
    /\ file_name_vtu_mesh \notin files

====
